---- MODULE Spec2Model ----
(***************************************************************************)
(* The transactional document engine of the ERP mock backend: purchase     *)
(* orders (app/apis/api_purchase_orders_module.py) and goods receipt notes *)
(* (app/apis/api_grn_module.py) over the shared in-memory dictionary that  *)
(* app/main_api.py builds, with the master data they look up.              *)
(*                                                                         *)
(* Money is held in mills (1/1000 of the currency unit), so that a unit    *)
(* price with three fractional digits is an integer and round(x, 2) is     *)
(* rounding to a multiple of 10.  Optional fields use the falsy value of   *)
(* their type for None: 0 for an id, "" for a string, <<>> for a document  *)
(* id; "Unset" marks a field the request body does not carry.  Line inputs *)
(* carry description and unitOfMeasure, so the handlers never fall back to *)
(* the product's own fields.                                               *)
(***************************************************************************)
EXTENDS Integers, Sequences, FiniteSets, TLC

\* ------------------------------------------------------------------ bounds
MaxSeq == 2
MaxLineId == 3
MaxLines == 2
MaxMonths == 2
MaxCo == 3
MaxMasterId == 3

\* --------------------------------------------------------- program constants
PoSeqWidth == 3
GrnSeqWidth == 4
FirstLineId == 1
FirstMasterId == 1
FirstNewCategoryId == 2

\* ------------------------------------------------------------------ inputs
StoreIds == {"SH01", "sh01"}
StoreRefs == StoreIds \cup {"WH02"}
SupplierRefs == {FirstMasterId, FirstMasterId + 1}
ProductRefs == {FirstMasterId, FirstMasterId + 1}
NoId == <<>>

\* None in an Optional[int] reference; 0 is an int of its own, and falsy like None
NoRef == 0 - 1

\* the truth value Python gives an Optional[int]
Truthy(x) == x # NoRef /\ x # 0

\* str.upper() on the store codes in use
Upper(s) == IF s = "sh01" THEN "SH01" ELSE s

\* str.lower() on the SKUs and category names used here
Lower(s) ==
    CASE s = "AB1" -> "ab1"
      [] s = "Default Category" -> "default category"
      [] s = "Tools" -> "tools"
      [] OTHER -> s

\* strftime("%y%m") of the t-th month counted from May 2024
YearMonth(t) == (24 + ((t + 3) \div 12)) * 100 + (((t + 3) % 12) + 1)

\* dict.get(key, default)
Get(d, k, default) == IF k \in DOMAIN d THEN d[k] ELSE default

\* d[k] = v
Put(d, k, v) == [x \in (DOMAIN d) \cup {k} |-> IF x = k THEN v ELSE d[x]]

\* del d[k] for every k in ks
Drop(d, ks) == [x \in (DOMAIN d) \ ks |-> d[x]]

Empty == [x \in {} |-> 0]

RECURSIVE Pow10(_)
Pow10(n) == IF n = 0 THEN 1 ELSE 10 * Pow10(n - 1)

RECURSIVE NumDigits(_)
NumDigits(n) == IF n < 10 THEN 1 ELSE 1 + NumDigits(n \div 10)

\* the decimal digits of n, most significant first, in exactly w places
DigitsOf(n, w) == [i \in 1..w |-> (n \div Pow10(w - i)) % 10]

\* format spec "0<width>d": zero-padded to width, longer when n needs more
ZeroPad(n, width) == DigitsOf(n, IF NumDigits(n) > width THEN NumDigits(n) ELSE width)

\* round(x, 2) on a non-negative amount in mills; a tie goes to the even cent
Round2(x) ==
    LET r == x % 10
        base == x - r
    IN  IF r < 5 THEN base
        ELSE IF r > 5 THEN base + 10
        ELSE IF (base \div 10) % 2 = 0 THEN base ELSE base + 10

RECURSIVE SumSeq(_)
SumSeq(s) == IF s = <<>> THEN 0 ELSE Head(s) + SumSeq(Tail(s))

Range(s) == {s[i] : i \in 1..Len(s)}

SeqsUpTo(S, lo, hi) == UNION {[1..n -> S] : n \in lo..hi}

\* ------------------------------------------------------------------- state
VARIABLES
    clock,          \* the current month, counted from the first one
    stores,         \* db["stores"]: the store ids present
    suppliers,      \* db["suppliers"]: the supplier ids present
    products,       \* db["products"]: product id -> its receipt flags, and its sku and
                    \* category when it came through the product endpoints
    categories,     \* db["categories"]: category id -> name and parent
    nextCategoryId, \* db["next_category_id"]
    nextProductId,  \* db["next_product_id"]
    poSeq,          \* db["po_sequences"]: sequence key -> last number used
    poHeaders,      \* db["purchase_order_headers"]
    poLines,        \* db["purchase_order_lines"]
    nextPoLineId,   \* db["next_po_line_id"]
    grnCounter,     \* db["next_grn_header_id_counter"]: store -> month -> next number
    grnHeaders,     \* db["goods_receipt_note_headers"]
    grnLines,       \* db["goods_receipt_note_lines"]
    nextGrnLineId,  \* db["next_grn_line_id"]
    resp,           \* the last call: operation, status code, id generated or addressed, number used
    used,           \* per generator and scope, the numbers handed out so far
    returned,       \* per document type, the ids successful creations returned, each with
                    \* the store and month of its request
    co,             \* the requests in flight on the event loop
    running         \* the coroutine that holds the event loop, 0 when idle

vars == <<clock, stores, suppliers, products, categories, nextCategoryId, nextProductId,
          poSeq, poHeaders, poLines, nextPoLineId,
          grnCounter, grnHeaders, grnLines, nextGrnLineId,
          resp, used, returned, co, running>>

\* the master data a receipt has no reason to touch
refVars == <<stores, suppliers, categories, nextCategoryId, nextProductId>>
masterVars == <<refVars, products>>
poVars == <<poSeq, poHeaders, poLines, nextPoLineId>>
grnVars == <<grnCounter, grnHeaders, grnLines, nextGrnLineId>>
loopVars == <<co, running>>

ym == YearMonth(clock)

Resp(op, code, id, seq, store) ==
    [op |-> op, code |-> code, id |-> id, seq |-> seq, store |-> store]

NoUse == [PO |-> Empty, GRN |-> Empty]

Issue(id, store_id, year_month) == [id |-> id, store |-> store_id, ym |-> year_month]

ReturnedIds(type) == {r.id : r \in returned[type]}

\* the shared dictionary as app/main_api.py builds it
DefaultCategories ==
    (FirstMasterId :> [categoryName |-> "Default Category", parentCategoryID |-> NoRef])

InitDb ==
    /\ stores = {}
    /\ suppliers = {}
    /\ products = Empty
    /\ categories = DefaultCategories
    /\ nextCategoryId = FirstNewCategoryId
    /\ nextProductId = FirstMasterId
    /\ poSeq = Empty
    /\ poHeaders = Empty
    /\ poLines = Empty
    /\ nextPoLineId = FirstLineId
    /\ grnCounter = Empty
    /\ grnHeaders = Empty
    /\ grnLines = Empty
    /\ nextGrnLineId = FirstLineId

InitGhost ==
    /\ resp = Resp("none", 0, NoId, 0, "")
    /\ used = NoUse
    /\ returned = [PO |-> {}, GRN |-> {}]

Init ==
    /\ clock = 1
    /\ InitDb
    /\ InitGhost
    /\ co = <<>>
    /\ running = 0

docVars == <<poVars, grnVars, used, returned, loopVars>>

\* the calendar moves on to the next month
Tick ==
    /\ clock < MaxMonths
    /\ clock' = clock + 1
    /\ resp' = Resp("tick", 0, NoId, 0, "")
    /\ UNCHANGED <<masterVars, docVars>>

\* ------------------------------------------------------- sequence generators
\* a sequence key that leaves the month out
PoSequenceKeyNoMonth(store_id, year_month) == <<"PO", store_id, 0>>

PoSequenceKey(store_id, year_month) == <<"PO", store_id, year_month>>

\* current_seq of generate_mock_po_id: the number the call uses
PoCurrentSeq(seqs, store_id, year_month) ==
    Get(seqs, PoSequenceKey(store_id, year_month), 0) + 1

\* db["po_sequences"] after generate_mock_po_id
PoSeqAfter(seqs, store_id, year_month) ==
    Put(seqs, PoSequenceKey(store_id, year_month), PoCurrentSeq(seqs, store_id, year_month))

\* the id generate_mock_po_id returns
PoIdFormat(store_id, year_month, seq) ==
    <<"PO", Upper(store_id), year_month>> \o ZeroPad(seq, PoSeqWidth)

\* db["next_grn_header_id_counter"] after the two "not in" initialisations
GrnCounterInit(counter, store_id, year_month) ==
    LET c1 == IF store_id \in DOMAIN counter THEN counter ELSE Put(counter, store_id, Empty)
    IN  IF year_month \in DOMAIN c1[store_id]
          THEN c1
          ELSE Put(c1, store_id, Put(c1[store_id], year_month, 1))

\* seq_num of get_next_grn_id_for_store: the number the call uses
GrnSeqNum(counter, store_id, year_month) ==
    GrnCounterInit(counter, store_id, year_month)[store_id][year_month]

\* a generator that reads the counter and leaves it as it is
GrnCounterNotAdvanced(counter, store_id, year_month) ==
    GrnCounterInit(counter, store_id, year_month)

\* db["next_grn_header_id_counter"] after get_next_grn_id_for_store
GrnCounterAfter(counter, store_id, year_month) ==
    LET c == GrnCounterInit(counter, store_id, year_month)
    IN  Put(c, store_id, Put(c[store_id], year_month, c[store_id][year_month] + 1))

\* the id get_next_grn_id_for_store returns
GrnIdFormat(store_id, year_month, seq) ==
    <<"GRN", store_id, year_month>> \o ZeroPad(seq, GrnSeqWidth)

\* the record of a generator call: the number joins those used in its scope
UsedAfter(type, store_id, year_month, seq) ==
    LET scope == <<store_id, year_month>>
    IN  [used EXCEPT ![type] = Put(@, scope, Get(@, scope, {}) \cup {seq})]

\* ---------------------------------------------------------- purchase orders
\* the index of the first line whose product is not in db["products"], 0 if none
FirstMissingProduct(lines) ==
    LET bad == {i \in 1..Len(lines) : lines[i].productID \notin DOMAIN products}
    IN  IF bad = {} THEN 0 ELSE CHOOSE i \in bad : \A j \in bad : i <= j

\* line_total_calc
LineTotalCalc(line_in) == line_in.quantityOrdered * line_in.unitPrice

\* line_data of one purchase order line
PoLineData(po_id, line_in, line_item_id) ==
    [purchaseOrderLineID |-> line_item_id,
     purchaseOrderID |-> po_id,
     productID |-> line_in.productID,
     quantityOrdered |-> line_in.quantityOrdered,
     unitPrice |-> Round2(line_in.unitPrice),
     lineTotal |-> Round2(LineTotalCalc(line_in)),
     quantityReceived |-> 0]

\* line ids counted from the first id for every document
PoProcessedLinesFromFirst(po_id, lines, n, first_id) ==
    [i \in 1..n |-> PoLineData(po_id, lines[i], FirstLineId + i - 1)]

\* processed_lines_data after the first n lines, ids counted from first_id
PoProcessedLines(po_id, lines, n, first_id) ==
    [i \in 1..n |-> PoLineData(po_id, lines[i], first_id + i - 1)]

\* po_subtotal_val: the running sum of the unrounded line totals
PoSubtotalVal(lines) == SumSeq([i \in 1..Len(lines) |-> LineTotalCalc(lines[i])])

\* calculated_subtotal
CalculatedSubtotal(lines) == Round2(PoSubtotalVal(lines))

\* grand_total_calc, from the amounts as the request carries them
GrandTotalCalc(po_in) ==
    CalculatedSubtotal(po_in.lines) + po_in.taxAmount + po_in.shippingCost + po_in.otherCharges

\* the five monetary fields both handlers store on the header
PoTotals(po_in) ==
    [subtotal |-> CalculatedSubtotal(po_in.lines),
     taxAmount |-> Round2(po_in.taxAmount),
     shippingCost |-> Round2(po_in.shippingCost),
     otherCharges |-> Round2(po_in.otherCharges),
     totalAmount |-> Round2(GrandTotalCalc(po_in))]

\* header_data of create_purchase_order_endpoint
PoHeaderData(po_id, po_in, lines) ==
    LET t == PoTotals(po_in)
    IN  [purchaseOrderID |-> po_id,
         supplierID |-> po_in.supplierID,
         storeID |-> po_in.storeID,
         status |-> IF po_in.status \in {"Unset", ""} THEN "Draft" ELSE po_in.status,
         subtotal |-> t.subtotal,
         taxAmount |-> t.taxAmount,
         shippingCost |-> t.shippingCost,
         otherCharges |-> t.otherCharges,
         totalAmount |-> t.totalAmount,
         lines |-> lines]

\* the flat line table after writing every line of a sequence under its id
PutLines(table, lines) ==
    [x \in (DOMAIN table) \cup {lines[i].purchaseOrderLineID : i \in 1..Len(lines)} |->
        IF \E i \in 1..Len(lines) : lines[i].purchaseOrderLineID = x
          THEN lines[CHOOSE i \in 1..Len(lines) : lines[i].purchaseOrderLineID = x]
          ELSE table[x]]

\* POST /purchase-orders.  When the generated id is already a key of
\* db["purchase_order_headers"] the handler executes "pass" and goes on.
CreatePO(po_in) ==
    LET seq == PoCurrentSeq(poSeq, po_in.storeID, ym)
        generated_po_id == PoIdFormat(po_in.storeID, ym, seq)
        bad == FirstMissingProduct(po_in.lines)
        n == Len(po_in.lines)
        lines == PoProcessedLines(generated_po_id, po_in.lines, n, nextPoLineId)
    IN  /\ seq <= MaxSeq
        /\ nextPoLineId + n - 1 <= MaxLineId
        /\ IF po_in.supplierID \notin suppliers \/ po_in.storeID \notin stores
             THEN /\ resp' = Resp("create_po", 404, NoId, 0, "")
                  /\ UNCHANGED <<poVars, used, returned>>
             ELSE /\ poSeq' = PoSeqAfter(poSeq, po_in.storeID, ym)
                  /\ used' = UsedAfter("PO", po_in.storeID, ym, seq)
                  /\ IF bad # 0
                       THEN /\ nextPoLineId' = nextPoLineId + (bad - 1)
                            /\ resp' = Resp("create_po", 404, generated_po_id, seq, po_in.storeID)
                            /\ UNCHANGED <<poHeaders, poLines, returned>>
                       ELSE /\ nextPoLineId' = nextPoLineId + n
                            /\ poHeaders' = Put(poHeaders, generated_po_id,
                                                PoHeaderData(generated_po_id, po_in, lines))
                            /\ poLines' = PutLines(poLines, lines)
                            /\ returned' = [returned EXCEPT !.PO = @ \cup {Issue(generated_po_id, po_in.storeID, ym)}]
                            /\ resp' = Resp("create_po", 201, generated_po_id, seq, po_in.storeID)
        /\ UNCHANGED <<clock, masterVars, grnVars, loopVars>>

\* the header after update_purchase_order_endpoint has copied the body onto it
PoUpdatedHeader(existing, po_id, po_in, lines) ==
    LET t == PoTotals(po_in)
    IN  [existing EXCEPT
            !.supplierID = po_in.supplierID,
            !.storeID = po_in.storeID,
            !.status = IF po_in.status = "Unset" THEN @ ELSE po_in.status,
            !.subtotal = t.subtotal,
            !.taxAmount = t.taxAmount,
            !.shippingCost = t.shippingCost,
            !.otherCharges = t.otherCharges,
            !.totalAmount = t.totalAmount,
            !.lines = lines]

\* db["purchase_order_lines"] once the header's old lines are deleted
PoLinesWithoutOld(table, existing) ==
    Drop(table, {existing.lines[i].purchaseOrderLineID : i \in 1..Len(existing.lines)})

\* PUT /purchase-orders/{purchase_order_id}
UpdatePO(purchase_order_id, po_in) ==
    LET bad == FirstMissingProduct(po_in.lines)
        n == Len(po_in.lines)
        written == IF bad = 0 THEN n ELSE bad - 1
    IN  /\ nextPoLineId + n - 1 <= MaxLineId
        /\ IF purchase_order_id \notin DOMAIN poHeaders
             THEN /\ resp' = Resp("update_po", 404, purchase_order_id, 0, "")
                  /\ UNCHANGED <<poHeaders, poLines, nextPoLineId>>
             ELSE IF \/ (po_in.supplierID # 0 /\ po_in.supplierID \notin suppliers)
                     \/ (po_in.storeID # "" /\ po_in.storeID \notin stores)
             THEN /\ resp' = Resp("update_po", 404, purchase_order_id, 0, "")
                  /\ UNCHANGED <<poHeaders, poLines, nextPoLineId>>
             ELSE LET existing == poHeaders[purchase_order_id]
                      lines == PoProcessedLines(purchase_order_id, po_in.lines, written, nextPoLineId)
                  IN  /\ poLines' = PutLines(PoLinesWithoutOld(poLines, existing), lines)
                      /\ nextPoLineId' = nextPoLineId + written
                      /\ IF bad # 0
                           THEN /\ resp' = Resp("update_po", 404, purchase_order_id, 0, "")
                                /\ UNCHANGED poHeaders
                           ELSE /\ poHeaders' = Put(poHeaders, purchase_order_id,
                                        PoUpdatedHeader(existing, purchase_order_id, po_in, lines))
                                /\ resp' = Resp("update_po", 200, purchase_order_id, 0, "")
        /\ UNCHANGED <<clock, masterVars, poSeq, grnVars, used, returned, loopVars>>

\* ------------------------------------------------------ goods receipt notes
\* a validation loop that does not look at the batch number
GrnLineRejectedNoBatch(line) ==
    \/ line.productID \notin DOMAIN products
    \/ (products[line.productID].requiresExpiryDate /\ line.expiryDate = "")

\* the validation loop of create_grn_endpoint over the lines: TRUE when a line
\* names no product, or lacks the expiry date or batch number its product requires
GrnLineRejected(line) ==
    \/ line.productID \notin DOMAIN products
    \/ (products[line.productID].requiresExpiryDate /\ line.expiryDate = "")
    \/ (products[line.productID].requiresBatchNumber /\ line.batchNumber = "")

\* a validation that does not look the purchase order up
GrnValidationFailsNoPo(grn_in) ==
    \/ grn_in.storeID \notin stores
    \/ (grn_in.supplierID # 0 /\ grn_in.supplierID \notin suppliers)
    \/ \E i \in 1..Len(grn_in.lines) : GrnLineRejected(grn_in.lines[i])

\* the three reference checks and the line loop that precede the id generation
GrnValidationFails(grn_in) ==
    \/ grn_in.storeID \notin stores
    \/ (grn_in.supplierID # 0 /\ grn_in.supplierID \notin suppliers)
    \/ (grn_in.purchaseOrderID # NoId /\ grn_in.purchaseOrderID \notin DOMAIN poHeaders)
    \/ \E i \in 1..Len(grn_in.lines) : GrnLineRejected(grn_in.lines[i])

\* db_line of one GRN line
GrnLineData(grn_id, line_in, line_id) ==
    [grnLineID |-> line_id,
     grnHeaderID |-> grn_id,
     productID |-> line_in.productID,
     purchaseOrderLineID |-> line_in.purchaseOrderLineID,
     quantityReceived |-> line_in.quantityReceived,
     batchNumber |-> line_in.batchNumber,
     expiryDate |-> line_in.expiryDate]

\* created_lines
GrnCreatedLines(grn_id, lines, first_id) ==
    [i \in 1..Len(lines) |-> GrnLineData(grn_id, lines[i], first_id + i - 1)]

\* db_grn_header once its lines are attached
GrnHeaderData(grn_id, grn_in, lines) ==
    [grnID |-> grn_id,
     storeID |-> grn_in.storeID,
     supplierID |-> grn_in.supplierID,
     purchaseOrderID |-> grn_in.purchaseOrderID,
     status |-> grn_in.status,
     lines |-> lines]

\* db["goods_receipt_note_lines"] after the creation loop
PutGrnLines(table, lines) ==
    [x \in (DOMAIN table) \cup {lines[i].grnLineID : i \in 1..Len(lines)} |->
        IF \E i \in 1..Len(lines) : lines[i].grnLineID = x
          THEN lines[CHOOSE i \in 1..Len(lines) : lines[i].grnLineID = x]
          ELSE table[x]]

\* a receipt that also rewrites the products it receives
GrnInventoryUpdateApplied(prods, created_lines) ==
    [p \in DOMAIN prods |->
        IF \E i \in 1..Len(created_lines) : created_lines[i].productID = p
          THEN [prods[p] EXCEPT !.requiresExpiryDate = TRUE]
          ELSE prods[p]]

\* db["products"] after the "Mock Inventory Update (Placeholder)" of
\* create_grn_endpoint: comments and a print, nothing is written
GrnInventoryUpdate(prods, created_lines) == prods

\* POST /grns
CreateGRN(grn_in) ==
    LET seq == GrnSeqNum(grnCounter, grn_in.storeID, ym)
        generated_grn_id == GrnIdFormat(grn_in.storeID, ym, seq)
        n == Len(grn_in.lines)
        lines == GrnCreatedLines(generated_grn_id, grn_in.lines, nextGrnLineId)
    IN  /\ seq <= MaxSeq
        /\ nextGrnLineId + n - 1 <= MaxLineId
        /\ IF GrnValidationFails(grn_in)
             THEN /\ resp' = Resp("create_grn", 400, NoId, 0, "")
                  /\ UNCHANGED <<grnVars, products, used, returned>>
             ELSE /\ grnCounter' = GrnCounterAfter(grnCounter, grn_in.storeID, ym)
                  /\ used' = UsedAfter("GRN", grn_in.storeID, ym, seq)
                  /\ IF generated_grn_id \in DOMAIN grnHeaders
                       THEN /\ resp' = Resp("create_grn", 500, generated_grn_id, seq, grn_in.storeID)
                            /\ UNCHANGED <<grnHeaders, grnLines, nextGrnLineId, products, returned>>
                       ELSE /\ grnLines' = PutGrnLines(grnLines, lines)
                            /\ nextGrnLineId' = nextGrnLineId + n
                            /\ grnHeaders' = Put(grnHeaders, generated_grn_id,
                                                 GrnHeaderData(generated_grn_id, grn_in, lines))
                            /\ products' = GrnInventoryUpdate(products, lines)
                            /\ returned' = [returned EXCEPT !.GRN = @ \cup {Issue(generated_grn_id, grn_in.storeID, ym)}]
                            /\ resp' = Resp("create_grn", 201, generated_grn_id, seq, grn_in.storeID)
        /\ UNCHANGED <<clock, refVars, poVars, loopVars>>

\* an update that derives the header's id from the store of the body
GrnUpdatedHeaderRenamed(current_grn, grn_update_data) ==
    [current_grn EXCEPT
        !.grnID = <<"GRN", grn_update_data.storeID>> \o SubSeq(@, 3, Len(@)),
        !.storeID = grn_update_data.storeID]

\* an update that stores the line list of the body
GrnUpdatedHeaderWithLines(current_grn, grn_update_data) ==
    [current_grn EXCEPT
        !.storeID = grn_update_data.storeID,
        !.supplierID = IF "supplierID" \in grn_update_data.unset THEN @ ELSE grn_update_data.supplierID,
        !.purchaseOrderID = IF "purchaseOrderID" \in grn_update_data.unset THEN @
                            ELSE grn_update_data.purchaseOrderID,
        !.status = IF "status" \in grn_update_data.unset THEN @ ELSE grn_update_data.status,
        !.lines = grn_update_data.lines]

\* updated_grn_header: the body's set fields copied over the stored header, the
\* stored lines kept
GrnUpdatedHeader(current_grn, grn_update_data) ==
    [current_grn EXCEPT
        !.storeID = grn_update_data.storeID,
        !.supplierID = IF "supplierID" \in grn_update_data.unset THEN @ ELSE grn_update_data.supplierID,
        !.purchaseOrderID = IF "purchaseOrderID" \in grn_update_data.unset THEN @
                            ELSE grn_update_data.purchaseOrderID,
        !.status = IF "status" \in grn_update_data.unset THEN @ ELSE grn_update_data.status]

\* PUT /grns/{grn_id}
UpdateGRN(grn_id, grn_update_data) ==
    /\ IF grn_id \notin DOMAIN grnHeaders
         THEN /\ resp' = Resp("update_grn", 404, grn_id, 0, "")
              /\ UNCHANGED grnHeaders
         ELSE /\ grnHeaders' = Put(grnHeaders, grn_id,
                                   GrnUpdatedHeader(grnHeaders[grn_id], grn_update_data))
              /\ resp' = Resp("update_grn", 200, grn_id, 0, "")
    /\ UNCHANGED <<clock, masterVars, poVars, grnCounter, grnLines, nextGrnLineId,
                   used, returned, loopVars>>

\* a deletion that leaves the line table alone
GrnLinesToDeleteNone(grn_id) == {}

\* lines_to_delete of delete_grn_endpoint
GrnLinesToDelete(grn_id) == {line_id \in DOMAIN grnLines : grnLines[line_id].grnHeaderID = grn_id}

\* DELETE /grns/{grn_id}
DeleteGRN(grn_id) ==
    /\ IF grn_id \notin DOMAIN grnHeaders
         THEN /\ resp' = Resp("delete_grn", 404, grn_id, 0, "")
              /\ UNCHANGED <<grnHeaders, grnLines>>
         ELSE /\ grnLines' = Drop(grnLines, GrnLinesToDelete(grn_id))
              /\ grnHeaders' = Drop(grnHeaders, {grn_id})
              /\ resp' = Resp("delete_grn", 204, grn_id, 0, "")
    /\ UNCHANGED <<clock, masterVars, poVars, grnCounter, nextGrnLineId,
                   used, returned, loopVars>>

\* ------------------------------------------------ categories and products
\* any(c.categoryName.lower() == name.lower() for c in cats.values())
CategoryNameTaken(cats, name) ==
    \E c \in DOMAIN cats : Lower(cats[c].categoryName) = Lower(name)

\* "if parentCategoryID and parentCategoryID not in categories", and the same
\* test on a product's categoryID: None and 0 pass it unchecked
CategoryRefMissing(ref) == Truthy(ref) /\ ref \notin DOMAIN categories

\* POST /categories
CreateCategory(category_in) ==
    /\ nextCategoryId <= MaxMasterId
    /\ IF \/ CategoryNameTaken(categories, category_in.categoryName)
          \/ CategoryRefMissing(category_in.parentCategoryID)
         THEN /\ resp' = Resp("create_category", 400, NoId, 0, "")
              /\ UNCHANGED <<categories, nextCategoryId>>
         ELSE /\ categories' = Put(categories, nextCategoryId,
                                   [categoryName |-> category_in.categoryName,
                                    parentCategoryID |-> category_in.parentCategoryID])
              /\ nextCategoryId' = nextCategoryId + 1
              /\ resp' = Resp("create_category", 201, nextCategoryId, 0, "")
    /\ UNCHANGED <<clock, stores, suppliers, products, nextProductId, docVars>>

\* current_category.model_copy(update=category_in.model_dump(exclude_unset=True))
UpdatedCategory(current_category, category_in) ==
    [categoryName |-> category_in.categoryName,
     parentCategoryID |-> IF "parentCategoryID" \in category_in.unset
                            THEN current_category.parentCategoryID
                            ELSE category_in.parentCategoryID]

\* PUT /categories/{category_id}
UpdateCategory(category_id, category_in) ==
    /\ IF category_id \notin DOMAIN categories
         THEN /\ resp' = Resp("update_category", 404, category_id, 0, "")
              /\ UNCHANGED categories
         ELSE IF \/ /\ Lower(category_in.categoryName) # Lower(categories[category_id].categoryName)
                    /\ CategoryNameTaken(Drop(categories, {category_id}), category_in.categoryName)
                 \/ CategoryRefMissing(category_in.parentCategoryID)
                 \/ category_in.parentCategoryID = category_id
                THEN /\ resp' = Resp("update_category", 400, category_id, 0, "")
                     /\ UNCHANGED categories
                ELSE /\ categories' = Put(categories, category_id,
                                          UpdatedCategory(categories[category_id], category_in))
                     /\ resp' = Resp("update_category", 200, category_id, 0, "")
    /\ UNCHANGED <<clock, stores, suppliers, nextCategoryId, products, nextProductId, docVars>>

\* DELETE /categories/{category_id}
DeleteCategory(category_id) ==
    /\ IF category_id \notin DOMAIN categories
         THEN /\ resp' = Resp("delete_category", 404, category_id, 0, "")
              /\ UNCHANGED categories
         ELSE IF \/ \E p \in DOMAIN products : products[p].categoryID = category_id
                 \/ \E c \in DOMAIN categories : categories[c].parentCategoryID = category_id
                THEN /\ resp' = Resp("delete_category", 409, category_id, 0, "")
                     /\ UNCHANGED categories
                ELSE /\ categories' = Drop(categories, {category_id})
                     /\ resp' = Resp("delete_category", 204, category_id, 0, "")
    /\ UNCHANGED <<clock, stores, suppliers, nextCategoryId, products, nextProductId, docVars>>

\* a comparison of SKUs that tells letter case apart
SkuTakenExact(prods, sku) ==
    \E p \in DOMAIN prods : prods[p].sku = sku

\* any(p.sku.lower() == sku.lower() for p in prods.values())
SkuTaken(prods, sku) ==
    \E p \in DOMAIN prods : Lower(prods[p].sku) = Lower(sku)

\* POST /products
CreateProduct(product_in) ==
    /\ nextProductId <= MaxMasterId
    /\ IF \/ SkuTaken(products, product_in.sku)
          \/ CategoryRefMissing(product_in.categoryID)
         THEN /\ resp' = Resp("create_product", 400, NoId, 0, "")
              /\ UNCHANGED <<products, nextProductId>>
         ELSE /\ products' = Put(products, nextProductId,
                                 [sku |-> product_in.sku,
                                  categoryID |-> product_in.categoryID,
                                  requiresExpiryDate |-> product_in.requiresExpiryDate,
                                  requiresBatchNumber |-> product_in.requiresBatchNumber])
              /\ nextProductId' = nextProductId + 1
              /\ resp' = Resp("create_product", 201, nextProductId, 0, "")
    /\ UNCHANGED <<clock, stores, suppliers, categories, nextCategoryId, docVars>>

\* current_product.model_copy(update=product_in.model_dump(exclude_unset=True))
UpdatedProduct(current_product, product_in) ==
    [sku |-> product_in.sku,
     categoryID |-> IF "categoryID" \in product_in.unset
                      THEN current_product.categoryID ELSE product_in.categoryID,
     requiresExpiryDate |-> IF "requiresExpiryDate" \in product_in.unset
                              THEN current_product.requiresExpiryDate
                              ELSE product_in.requiresExpiryDate,
     requiresBatchNumber |-> IF "requiresBatchNumber" \in product_in.unset
                               THEN current_product.requiresBatchNumber
                               ELSE product_in.requiresBatchNumber]

\* PUT /products/{product_id}
UpdateProduct(product_id, product_in) ==
    /\ IF product_id \notin DOMAIN products
         THEN /\ resp' = Resp("update_product", 404, product_id, 0, "")
              /\ UNCHANGED products
         ELSE IF \/ /\ Lower(product_in.sku) # Lower(products[product_id].sku)
                    /\ SkuTaken(Drop(products, {product_id}), product_in.sku)
                 \/ CategoryRefMissing(product_in.categoryID)
                THEN /\ resp' = Resp("update_product", 400, product_id, 0, "")
                     /\ UNCHANGED products
                ELSE /\ products' = Put(products, product_id,
                                        UpdatedProduct(products[product_id], product_in))
                     /\ resp' = Resp("update_product", 200, product_id, 0, "")
    /\ UNCHANGED <<clock, stores, suppliers, categories, nextCategoryId, nextProductId, docVars>>

\* DELETE /products/{product_id}
DeleteProduct(product_id) ==
    /\ IF product_id \notin DOMAIN products
         THEN /\ resp' = Resp("delete_product", 404, product_id, 0, "")
              /\ UNCHANGED products
         ELSE /\ products' = Drop(products, {product_id})
              /\ resp' = Resp("delete_product", 204, product_id, 0, "")
    /\ UNCHANGED <<clock, stores, suppliers, categories, nextCategoryId, nextProductId, docVars>>

\* ------------------------------------------------------------ request bodies
Price2550 == 25500
Qty10 == 10

PoLineInputs == [productID : ProductRefs, quantityOrdered : {Qty10}, unitPrice : {Price2550}]

PoRequests ==
    [supplierID : SupplierRefs, storeID : StoreRefs, status : {"Unset"},
     lines : SeqsUpTo(PoLineInputs, 1, MaxLines),
     taxAmount : {0}, shippingCost : {0}, otherCharges : {0}]

\* the path parameter of a PUT: a stored id, or one that names nothing
PoTargets == DOMAIN poHeaders \cup {<<"PO", "NONE">>}

GrnLineInputs ==
    {[productID |-> p, purchaseOrderLineID |-> 0, quantityReceived |-> 1,
      batchNumber |-> b[1], expiryDate |-> b[2]] :
        p \in ProductRefs, b \in {<<"", "">>, <<"B1", "2025-12-31">>}}

GrnRequests ==
    [storeID : StoreRefs, supplierID : SupplierRefs, purchaseOrderID : {NoId},
     status : {"Draft"}, unset : {{"purchaseOrderID", "status"}},
     lines : SeqsUpTo(GrnLineInputs, 1, MaxLines)]

\* the bodies of a PUT /grns/{grn_id}: the lines they carry are not read
GrnUpdates ==
    {r \in GrnRequests : r.storeID \in StoreIds /\ r.supplierID = FirstMasterId /\ Len(r.lines) = 1
                         /\ r.lines[1].productID = FirstMasterId /\ r.lines[1].batchNumber = ""}

\* the path parameter of a PUT or DELETE: a stored id, or one that names nothing
GrnTargets == DOMAIN grnHeaders \cup {<<"GRN", "NONE">>}

\* ------------------------------------------------------------ specification
\* The master data in place: two stores whose codes differ in case only, one
\* supplier and one product, each entered through its own endpoint.
SeededStores(store_ids, requiresExpiryDate, requiresBatchNumber) ==
    /\ clock = 1
    /\ stores = store_ids
    /\ suppliers = {FirstMasterId}
    /\ products = (FirstMasterId :> [sku |-> "ab1", categoryID |-> NoRef,
                                     requiresExpiryDate |-> requiresExpiryDate,
                                     requiresBatchNumber |-> requiresBatchNumber])
    /\ categories = DefaultCategories
    /\ nextCategoryId = FirstNewCategoryId
    /\ nextProductId = FirstMasterId + 1
    /\ poSeq = Empty /\ poHeaders = Empty /\ poLines = Empty /\ nextPoLineId = FirstLineId
    /\ grnCounter = Empty /\ grnHeaders = Empty /\ grnLines = Empty
    /\ nextGrnLineId = FirstLineId
    /\ InitGhost
    /\ co = <<>>
    /\ running = 0

Seeded(requiresExpiryDate, requiresBatchNumber) ==
    SeededStores(StoreIds, requiresExpiryDate, requiresBatchNumber)

\* the purchase order endpoints over the seeded master data
InitPO == Seeded(FALSE, FALSE)

NextPO ==
    \/ Tick
    \/ \E r \in PoRequests : CreatePO(r)
    \/ \E id \in PoTargets, r \in PoRequests : UpdatePO(id, r)

SpecPO == InitPO /\ [][NextPO]_vars

\* the goods receipt note endpoints over the seeded master data
InitGRN == Seeded(FALSE, TRUE)

NextGRN ==
    \/ Tick
    \/ \E r \in GrnRequests : CreateGRN(r)
    \/ \E id \in GrnTargets, r \in GrnUpdates : UpdateGRN(id, r)
    \/ \E id \in GrnTargets : DeleteGRN(id)

SpecGRN == InitGRN /\ [][NextGRN]_vars

\* ------------------------------------------------------- amounts in mills
\* Unit prices and charges with three fractional digits, all of them an even
\* number of mills: no product or sum of them lies halfway between two cents,
\* where the binary value of the float would decide the rounding.
SubCentAmounts == {0, 4}

MoneyLineInputs ==
    [productID : {FirstMasterId}, quantityOrdered : {1, 3},
     unitPrice : (SubCentAmounts \ {0}) \cup {Price2550}]

MoneyRequests ==
    [supplierID : {FirstMasterId}, storeID : {"SH01"}, status : {"Unset"},
     lines : SeqsUpTo(MoneyLineInputs, 1, MaxLines),
     taxAmount : SubCentAmounts, shippingCost : SubCentAmounts, otherCharges : SubCentAmounts]

NextMoney ==
    \/ \E r \in MoneyRequests : CreatePO(r)
    \/ \E id \in PoTargets, r \in MoneyRequests : UpdatePO(id, r)

SpecMoney == InitPO /\ [][NextMoney]_vars

\* --------------------------------------------------------- generators alone
\* one call of generate_mock_po_id(store_id)
GenPO(store_id) ==
    LET seq == PoCurrentSeq(poSeq, store_id, ym)
    IN  /\ seq <= MaxSeq
        /\ poSeq' = PoSeqAfter(poSeq, store_id, ym)
        /\ used' = UsedAfter("PO", store_id, ym, seq)
        /\ resp' = Resp("generate_mock_po_id", 0, PoIdFormat(store_id, ym, seq), seq, store_id)
        /\ UNCHANGED <<clock, masterVars, poHeaders, poLines, nextPoLineId, grnVars,
                       returned, loopVars>>

\* one call of get_next_grn_id_for_store(store_id)
GenGRN(store_id) ==
    LET seq == GrnSeqNum(grnCounter, store_id, ym)
    IN  /\ seq <= MaxSeq
        /\ grnCounter' = GrnCounterAfter(grnCounter, store_id, ym)
        /\ used' = UsedAfter("GRN", store_id, ym, seq)
        /\ resp' = Resp("get_next_grn_id_for_store", 0, GrnIdFormat(store_id, ym, seq), seq, store_id)
        /\ UNCHANGED <<clock, masterVars, poVars, grnHeaders, grnLines, nextGrnLineId,
                       returned, loopVars>>

NextGen ==
    \/ Tick
    \/ \E s \in StoreIds : GenPO(s)
    \/ \E s \in StoreIds : GenGRN(s)

SpecGen == Init /\ [][NextGen]_vars

\* ------------------------------------------- requests on the event loop
\* Both creation handlers are "async def" bodies that contain no await: once
\* the loop enters one it runs to its return.  Suspends(pc) tells whether the
\* handler hands the loop back before the step at pc.
SuspendsBeforeWrite(pc) == pc = "write"

Suspends(pc) == FALSE

\* the valid bodies the concurrent requests carry
CoPoRequest(store_id) ==
    [supplierID |-> FirstMasterId, storeID |-> store_id, status |-> "Unset",
     lines |-> <<[productID |-> FirstMasterId, quantityOrdered |-> Qty10, unitPrice |-> Price2550]>>,
     taxAmount |-> 0, shippingCost |-> 0, otherCharges |-> 0]

CoGrnRequest(store_id) ==
    [storeID |-> store_id, supplierID |-> FirstMasterId, purchaseOrderID |-> NoId,
     status |-> "Draft", unset |-> {"purchaseOrderID", "status"},
     lines |-> <<[productID |-> FirstMasterId, purchaseOrderLineID |-> 0, quantityReceived |-> 1,
                  batchNumber |-> "B1", expiryDate |-> "2025-12-31"]>>]

Coroutines == 1..MaxCo

\* the loop is free for c, or c holds it
Holds(c) == running \in {0, c}

\* c moves to pc; it keeps the loop unless it is done or suspends there
CoMove(c, pc, seq, id, code) ==
    /\ co' = [co EXCEPT ![c] = [@ EXCEPT !.pc = pc, !.seq = seq, !.id = id, !.code = code]]
    /\ running' = IF pc = "done" \/ Suspends(pc) THEN 0 ELSE c

\* the reference checks at the head of either creation handler
CoStart(c) ==
    LET r == co[c]
        fails == IF r.type = "PO"
                   THEN r.store \notin stores \/ CoPoRequest(r.store).supplierID \notin suppliers
                   ELSE GrnValidationFails(CoGrnRequest(r.store))
    IN  /\ Holds(c) /\ r.pc = "start"
        /\ IF fails THEN CoMove(c, "done", 0, NoId, IF r.type = "PO" THEN 404 ELSE 400)
                    ELSE CoMove(c, "read", 0, NoId, 0)
        /\ UNCHANGED <<clock, masterVars, poVars, grnVars, resp, used, returned>>

\* the generator reads the counter: current_seq = ... + 1, seq_num = ...
CoRead(c) ==
    LET r == co[c]
        seq == IF r.type = "PO" THEN PoCurrentSeq(poSeq, r.store, ym)
                                ELSE GrnSeqNum(grnCounter, r.store, ym)
    IN  /\ Holds(c) /\ r.pc = "read"
        /\ grnCounter' = IF r.type = "PO" THEN grnCounter
                                          ELSE GrnCounterInit(grnCounter, r.store, ym)
        /\ used' = UsedAfter(r.type, r.store, ym, seq)
        /\ CoMove(c, "write", seq, NoId, 0)
        /\ UNCHANGED <<clock, masterVars, poVars, grnHeaders, grnLines, nextGrnLineId,
                       resp, returned>>

\* the generator writes the counter and returns the formatted id
CoWrite(c) ==
    LET r == co[c]
    IN  /\ Holds(c) /\ r.pc = "write"
        /\ IF r.type = "PO"
             THEN /\ poSeq' = Put(poSeq, PoSequenceKey(r.store, ym), r.seq)
                  /\ CoMove(c, "store", r.seq, PoIdFormat(r.store, ym, r.seq), 0)
                  /\ UNCHANGED grnCounter
             ELSE /\ grnCounter' = GrnCounterAfter(grnCounter, r.store, ym)
                  /\ CoMove(c, "store", r.seq, GrnIdFormat(r.store, ym, r.seq), 0)
                  /\ UNCHANGED poSeq
        /\ UNCHANGED <<clock, masterVars, poHeaders, poLines, nextPoLineId,
                       grnHeaders, grnLines, nextGrnLineId, resp, used, returned>>

\* the rest of the handler: the lines, the header, the response
CoStore(c) ==
    LET r == co[c]
        po_in == CoPoRequest(r.store)
        grn_in == CoGrnRequest(r.store)
        po_lines == PoProcessedLines(r.id, po_in.lines, Len(po_in.lines), nextPoLineId)
        grn_lines == GrnCreatedLines(r.id, grn_in.lines, nextGrnLineId)
    IN  /\ Holds(c) /\ r.pc = "store"
        /\ IF r.type = "PO"
             THEN /\ nextPoLineId' = nextPoLineId + Len(po_in.lines)
                  /\ poHeaders' = Put(poHeaders, r.id, PoHeaderData(r.id, po_in, po_lines))
                  /\ poLines' = PutLines(poLines, po_lines)
                  /\ returned' = [returned EXCEPT !.PO = @ \cup {Issue(r.id, r.store, ym)}]
                  /\ CoMove(c, "done", r.seq, r.id, 201)
                  /\ UNCHANGED <<grnHeaders, grnLines, nextGrnLineId>>
             ELSE IF r.id \in DOMAIN grnHeaders
             THEN /\ CoMove(c, "done", r.seq, r.id, 500)
                  /\ UNCHANGED <<poHeaders, poLines, nextPoLineId, grnHeaders, grnLines,
                                 nextGrnLineId, returned>>
             ELSE /\ grnLines' = PutGrnLines(grnLines, grn_lines)
                  /\ nextGrnLineId' = nextGrnLineId + Len(grn_in.lines)
                  /\ grnHeaders' = Put(grnHeaders, r.id, GrnHeaderData(r.id, grn_in, grn_lines))
                  /\ returned' = [returned EXCEPT !.GRN = @ \cup {Issue(r.id, r.store, ym)}]
                  /\ CoMove(c, "done", r.seq, r.id, 201)
                  /\ UNCHANGED <<poHeaders, poLines, nextPoLineId>>
        /\ UNCHANGED <<clock, masterVars, poSeq, grnCounter, resp, used>>

\* MaxCo valid creation requests for one store in one month arrive together
InitConc ==
    /\ clock = 1
    /\ stores = StoreIds
    /\ suppliers = {FirstMasterId}
    /\ products = (FirstMasterId :> [sku |-> "ab1", categoryID |-> NoRef,
                                     requiresExpiryDate |-> FALSE, requiresBatchNumber |-> TRUE])
    /\ categories = DefaultCategories
    /\ nextCategoryId = FirstNewCategoryId
    /\ nextProductId = FirstMasterId + 1
    /\ poSeq = Empty /\ poHeaders = Empty /\ poLines = Empty /\ nextPoLineId = FirstLineId
    /\ grnCounter = Empty /\ grnHeaders = Empty /\ grnLines = Empty
    /\ nextGrnLineId = FirstLineId
    /\ InitGhost
    /\ \E s \in StoreIds :
          co \in [Coroutines -> [type : {"PO", "GRN"}, store : {s}, pc : {"start"},
                                 seq : {0}, id : {NoId}, code : {0}]]
    /\ running = 0

NextConc ==
    \/ \E c \in Coroutines : CoStart(c)
    \/ \E c \in Coroutines : CoRead(c)
    \/ \E c \in Coroutines : CoWrite(c)
    \/ \E c \in Coroutines : CoStore(c)

SpecConc == InitConc /\ [][NextConc]_vars

\* ------------------------------------------------------------------- claims
GeneratorOf(op) ==
    IF op \in {"generate_mock_po_id", "create_po"} THEN "PO" ELSE "GRN"

\* the step is a call of one of the two generators
GeneratorCalled ==
    /\ resp'.op \in {"generate_mock_po_id", "get_next_grn_id_for_store"}
    /\ resp'.seq # 0

\* C1: in every (store, year-month) scope and for both generators, the first
\* call uses 1 and every call uses a number greater than all the numbers used
\* before in its scope, so no number is used twice in a scope.
C1_ScopedStrictlyIncreasing ==
    [][GeneratorCalled =>
        LET before == Get(used[GeneratorOf(resp'.op)], <<resp'.store, ym>>, {})
        IN  /\ (before = {} => resp'.seq = 1)
            /\ \A k \in before : resp'.seq > k]_vars

\* both generators have been called twice in one scope of the first month and
\* once, for the same store, in the next month
C1_Witness ==
    \E s \in StoreIds :
        /\ clock = 2
        /\ \A type \in {"PO", "GRN"} :
              /\ Get(used[type], <<s, YearMonth(1)>>, {}) = {1, 2}
              /\ Get(used[type], <<s, YearMonth(2)>>, {}) = {1}

Created(op) == resp'.op = op /\ resp'.code = 201

\* C2: every successful POST /purchase-orders returns an id that no earlier
\* creation returned, over stores whose ids differ in letter case too, so no
\* stored header is replaced by a later creation.
C2_PoIdsUnique ==
    [][Created("create_po") =>
        /\ resp'.id \notin ReturnedIds("PO")
        /\ resp'.id \notin DOMAIN poHeaders]_vars

\* C3: every successful GRN creation returns an id that no earlier GRN creation
\* returned, also when the earlier GRN has been deleted since.
C3_GrnIdsNeverReissued ==
    [][Created("create_grn") => resp'.id \notin ReturnedIds("GRN")]_vars

\* a GRN was created in a scope where an earlier GRN has been deleted
C3_Witness ==
    /\ resp.op = "create_grn" /\ resp.code = 201
    /\ \E r \in returned.GRN :
          /\ r.id \notin DOMAIN grnHeaders
          /\ r.store = resp.store
          /\ r.ym = ym

\* C5: a PO or GRN creation whose generated id already names a stored header
\* is rejected with an error, and that header and its lines stay as they were.
C5_CollisionRejected ==
    [][/\ (resp'.op = "create_po" /\ resp'.seq # 0 /\ resp'.id \in DOMAIN poHeaders
             => /\ resp'.code >= 400
                /\ poHeaders'[resp'.id] = poHeaders[resp'.id]
                /\ poLines' = poLines)
       /\ (resp'.op = "create_grn" /\ resp'.seq # 0 /\ resp'.id \in DOMAIN grnHeaders
             => /\ resp'.code >= 400
                /\ grnHeaders'[resp'.id] = grnHeaders[resp'.id]
                /\ grnLines' = grnLines)]_vars

\* C6: a failed POST /purchase-orders leaves the PO headers, the PO line table,
\* the PO sequence counters and the PO line-id counter as they were.
C6_FailedCreateWritesNothing ==
    [][resp'.op = "create_po" /\ resp'.code >= 400 =>
        UNCHANGED <<poHeaders, poLines, poSeq, nextPoLineId>>]_vars

\* C7: a failed PUT /purchase-orders/{id} leaves the stored header, the PO line
\* table and the PO line-id counter as they were, the previous lines included.
C7_FailedUpdateWritesNothing ==
    [][resp'.op = "update_po" /\ resp'.code >= 400 =>
        UNCHANGED <<poHeaders, poLines, nextPoLineId>>]_vars

\* the successful PO creations so far for a store in a month
PoCreatedIn(store_id, year_month) ==
    Cardinality({r \in returned.PO : r.store = store_id /\ r.ym = year_month})

\* C10: the first successful PO creation for store S in a month returns
\* PO-S-<YYMM>001 and the next one PO-S-<YYMM>002; with one line of quantity q
\* at unit price p and no charges, subtotal and totalAmount are q*p.
C10_ExampleScenario ==
    [][Created("create_po") =>
        LET h == poHeaders'[resp'.id]
            k == PoCreatedIn(h.storeID, ym)
        IN  /\ (k < 2 => resp'.id = <<"PO", Upper(h.storeID), ym>> \o DigitsOf(k + 1, 3))
            /\ (Len(h.lines) = 1 /\ h.taxAmount + h.shippingCost + h.otherCharges = 0
                  => /\ h.subtotal = h.lines[1].quantityOrdered * h.lines[1].unitPrice
                     /\ h.totalAmount = h.subtotal)]_vars

AllDone == co # <<>> /\ \A c \in DOMAIN co : co[c].pc = "done"

CoOfType(type) == {c \in DOMAIN co : co[c].type = type}

StoredLineTotals(h) == SumSeq([i \in 1..Len(h.lines) |-> h.lines[i].lineTotal])

\* C8: after every successful PO create or update the stored subtotal is the
\* sum of the stored, rounded lineTotal values of the header's lines.
C8_SubtotalIsSumOfStoredLines ==
    \A id \in DOMAIN poHeaders : poHeaders[id].subtotal = StoredLineTotals(poHeaders[id])

\* C9: after every successful PO create or update the stored totalAmount is the
\* stored subtotal plus the stored taxAmount, shippingCost and otherCharges.
C9_TotalIsSumOfStoredParts ==
    \A id \in DOMAIN poHeaders :
        LET h == poHeaders[id]
        IN  h.totalAmount = h.subtotal + h.taxAmount + h.shippingCost + h.otherCharges

\* ------------------------------------------- batch and expiry requirements
\* GRN lines for the seeded product, with or without batch number and expiry date
FlagLineInputs ==
    {[productID |-> FirstMasterId, purchaseOrderLineID |-> 0, quantityReceived |-> 1,
      batchNumber |-> b, expiryDate |-> e] : b \in {"", "B1"}, e \in {"", "2025-12-31"}}

FlagRequests ==
    [storeID : {"SH01"}, supplierID : {FirstMasterId}, purchaseOrderID : {NoId},
     status : {"Draft"}, unset : {{"purchaseOrderID", "status"}},
     lines : SeqsUpTo(FlagLineInputs, 1, MaxLines)]

\* the product's two flags as the product endpoint stored them: any combination
InitFlags ==
    \E x, b \in BOOLEAN : Seeded(x, b)

NextFlags ==
    \/ \E r \in FlagRequests : CreateGRN(r)
    \/ \E id \in GrnTargets : DeleteGRN(id)

SpecFlags == InitFlags /\ [][NextFlags]_vars

\* a line lacks the batch number or the expiry date its product requires
LacksRequired(line) ==
    \/ (products[line.productID].requiresBatchNumber /\ line.batchNumber = "")
    \/ (products[line.productID].requiresExpiryDate /\ line.expiryDate = "")

SomeLineLacksRequired(grn_in) ==
    \E i \in 1..Len(grn_in.lines) : LacksRequired(grn_in.lines[i])

\* C11: a GRN creation with a line that lacks the batch number or expiry date
\* its product requires answers 400 and stores no header and no line; a request
\* whose lines all carry what their products require is stored with 201.
C11_RequiredBatchAndExpiry ==
    [][\A r \in FlagRequests : CreateGRN(r) =>
          IF SomeLineLacksRequired(r)
            THEN resp'.code = 400 /\ UNCHANGED <<grnHeaders, grnLines>>
            ELSE /\ resp'.code = 201
                 /\ resp'.id \in DOMAIN grnHeaders' \ DOMAIN grnHeaders
                 /\ Len(grnHeaders'[resp'.id].lines) = Len(r.lines)]_vars

\* the product requires both; one request was stored and a later one rejected
C11_Witness ==
    /\ products[FirstMasterId].requiresBatchNumber
    /\ products[FirstMasterId].requiresExpiryDate
    /\ resp.op = "create_grn" /\ resp.code = 400
    /\ \E id \in DOMAIN grnHeaders :
          \A i \in 1..Len(grnHeaders[id].lines) :
              grnHeaders[id].lines[i].batchNumber # "" /\ grnHeaders[id].lines[i].expiryDate # ""

\* ------------------------------------------------------------ GRN deletion
\* GET /grns/{grn_id}: the status code of the answer
GetGrnById(headers, grn_id) == IF grn_id \in DOMAIN headers THEN 200 ELSE 404

\* C12: after a successful DELETE of a GRN no line of the line table names the
\* deleted id, a GET of the id answers 404, and the lines and headers of every
\* other GRN are as they were.
C12_DeleteRemovesHeaderAndItsLines ==
    [][resp'.op = "delete_grn" /\ resp'.code = 204 =>
        LET id == resp'.id
        IN  /\ \A l \in DOMAIN grnLines' : grnLines'[l].grnHeaderID # id
            /\ GetGrnById(grnHeaders', id) = 404
            /\ \A l \in DOMAIN grnLines :
                  grnLines[l].grnHeaderID # id =>
                      l \in DOMAIN grnLines' /\ grnLines'[l] = grnLines[l]
            /\ \A h \in DOMAIN grnHeaders \ {id} :
                  h \in DOMAIN grnHeaders' /\ grnHeaders'[h] = grnHeaders[h]]_vars

\* a GRN with lines was deleted while another GRN with lines stays stored
C12_Witness ==
    /\ resp.op = "delete_grn" /\ resp.code = 204
    /\ nextGrnLineId > FirstLineId + Cardinality(DOMAIN grnLines)
    /\ \E h \in DOMAIN grnHeaders :
          /\ Len(grnHeaders[h].lines) > 0
          /\ \A i \in 1..Len(grnHeaders[h].lines) :
                grnHeaders[h].lines[i].grnLineID \in DOMAIN grnLines

\* ------------------------------------- receipts against purchase orders
\* GRN lines that may name the first purchase order line; every line carries
\* the batch number the seeded product requires
LinkedLineInputs ==
    {[productID |-> p, purchaseOrderLineID |-> l, quantityReceived |-> 1,
      batchNumber |-> "B1", expiryDate |-> "2025-12-31"] :
        p \in ProductRefs, l \in {0, FirstLineId}}

\* GRN bodies as GoodsReceiptNoteHeaderCreate admits them: the supplier may be
\* absent (0), the status is any string, the line list may be empty
LinkedRequests ==
    [storeID : {"SH01", "WH02"}, supplierID : {0} \cup SupplierRefs, purchaseOrderID : {NoId},
     status : {"Draft", "Posted"}, unset : {{"purchaseOrderID"}},
     lines : SeqsUpTo(LinkedLineInputs, 0, 1)]

\* the bodies of a PUT /grns/{grn_id}: the lines they carry are not read
LinkedUpdates == {r \in LinkedRequests : r.lines = <<>> /\ r.supplierID # 0}

NextLinked ==
    \/ CreatePO(CoPoRequest("SH01"))
    \/ \E r \in LinkedRequests : CreateGRN(r)
    \/ \E id \in GrnTargets, r \in LinkedUpdates : UpdateGRN(id, r)
    \/ \E id \in GrnTargets : DeleteGRN(id)

SpecLinked == InitGRN /\ [][NextLinked]_vars

\* C13: a DELETE of a GRN whose status is neither Draft nor Cancelled is
\* rejected, and the GRN header and its lines remain stored.
C13_DeleteOnlyDraftOrCancelled ==
    [][/\ resp'.op = "delete_grn"
       /\ resp'.id \in DOMAIN grnHeaders
       /\ grnHeaders[resp'.id].status \notin {"Draft", "Cancelled"}
       => /\ resp'.code >= 400
          /\ UNCHANGED <<grnHeaders, grnLines>>]_vars

\* ------------------------------------------------- purchase order status
\* PO bodies that carry a status of PurchaseOrderStatusLiteral, or none
StatusLineInputs ==
    [productID : {FirstMasterId}, quantityOrdered : {1, Qty10}, unitPrice : {Price2550}]

StatusRequests ==
    [supplierID : {FirstMasterId}, storeID : StoreIds, status : {"Unset", "Draft", "Approved"},
     lines : SeqsUpTo(StatusLineInputs, 1, 1),
     taxAmount : {0}, shippingCost : {0}, otherCharges : {0}]

NextStatus ==
    \/ \E r \in StatusRequests : CreatePO(r)
    \/ \E id \in PoTargets, r \in StatusRequests : UpdatePO(id, r)

SpecStatus == InitPO /\ [][NextStatus]_vars

\* what a request line and a stored line have in common
LineContent(l) ==
    [productID |-> l.productID, quantityOrdered |-> l.quantityOrdered, unitPrice |-> l.unitPrice]

LineContents(lines) == [i \in 1..Len(lines) |-> LineContent(lines[i])]

\* C14: a PUT on a purchase order whose status is past Draft/PendingApproval
\* that carries a line list different from the stored one is rejected and the
\* stored lines stay as they were.
C14_LineUpdatePastDraftRejected ==
    [][\A id \in DOMAIN poHeaders, r \in StatusRequests :
          /\ UpdatePO(id, r)
          /\ poHeaders[id].status \notin {"Draft", "PendingApproval"}
          /\ LineContents(r.lines) # LineContents(poHeaders[id].lines)
          => /\ resp'.code >= 400
             /\ poHeaders'[id].lines = poHeaders[id].lines
             /\ poLines' = poLines]_vars

\* C16: immediately after any successful POST /purchase-orders the stored
\* header's status is Draft, whatever status the request body carries.
C16_CreatedInDraft ==
    [][Created("create_po") => poHeaders'[resp'.id].status = "Draft"]_vars

\* C15: every stored PO header and every stored GRN header has at least one
\* line, whatever create, update and delete calls came before.
C15_HeadersHaveLines ==
    /\ \A id \in DOMAIN poHeaders : Len(poHeaders[id].lines) >= 1
    /\ \A id \in DOMAIN grnHeaders : Len(grnHeaders[id].lines) >= 1

\* the GRN lines of a header that name a stored purchase order line
LinkedLines(h) ==
    {i \in 1..Len(h.lines) : h.lines[i].purchaseOrderLineID \in DOMAIN poLines}

\* the step stores a GRN header as Posted that was not stored as Posted before
BecomesPosted ==
    /\ resp'.op \in {"create_grn", "update_grn"}
    /\ resp'.code \in {200, 201}
    /\ grnHeaders'[resp'.id].status = "Posted"
    /\ (resp'.id \in DOMAIN grnHeaders => grnHeaders[resp'.id].status # "Posted")

\* C18: when a GRN becomes Posted, the quantityReceived of every purchase order
\* line one of its lines names grows by that GRN line's quantityReceived.
C18_PostingUpdatesPoLine ==
    [][BecomesPosted =>
        LET h == grnHeaders'[resp'.id]
        IN  \A i \in LinkedLines(h) :
                LET l == h.lines[i].purchaseOrderLineID
                IN  poLines'[l].quantityReceived =
                        poLines[l].quantityReceived + h.lines[i].quantityReceived]_vars

\* the references of a header just stored name existing master data
RefsExist(h) ==
    /\ h.storeID \in stores
    /\ h.supplierID \in suppliers

\* C19: the header a successful PO or GRN creation stores names an existing
\* store and an existing supplier, and every one of its lines an existing
\* product; a failed creation stores no header and no line.
C19_CreationReferencesExist ==
    [][/\ (Created("create_po") =>
              LET h == poHeaders'[resp'.id]
              IN  RefsExist(h) /\ \A i \in 1..Len(h.lines) : h.lines[i].productID \in DOMAIN products)
       /\ (Created("create_grn") =>
              LET h == grnHeaders'[resp'.id]
              IN  RefsExist(h) /\ \A i \in 1..Len(h.lines) : h.lines[i].productID \in DOMAIN products)
       /\ (resp'.op \in {"create_po", "create_grn"} /\ resp'.code >= 400 =>
              UNCHANGED <<poHeaders, poLines, grnHeaders, grnLines>>)]_vars

\* C20: after any successful PO or GRN update the stored header's storeID and
\* supplierID name a store and a supplier that exist.
C20_UpdateReferencesExist ==
    [][/\ (resp'.op = "update_po" /\ resp'.code = 200 => RefsExist(poHeaders'[resp'.id]))
       /\ (resp'.op = "update_grn" /\ resp'.code = 200 => RefsExist(grnHeaders'[resp'.id]))]_vars

\* ------------------------------------------------- updates of both documents
\* the bodies of a PUT /grns/{grn_id} that post the GRN, for any store code
PostingUpdates ==
    {r \in LinkedUpdates : r.supplierID = FirstMasterId /\ r.status = "Posted"}

NextUpdates ==
    \/ CreatePO(CoPoRequest("SH01"))
    \/ \E id \in PoTargets, s \in StoreIds : UpdatePO(id, CoPoRequest(s))
    \/ CreateGRN(CoGrnRequest("SH01"))
    \/ \E id \in GrnTargets, r \in PostingUpdates : UpdateGRN(id, r)

SpecUpdates == InitGRN /\ [][NextUpdates]_vars

\* every stored header carries the id it is stored under
KeyedByOwnId ==
    /\ \A id \in DOMAIN poHeaders : poHeaders[id].purchaseOrderID = id
    /\ \A id \in DOMAIN grnHeaders : grnHeaders[id].grnID = id

\* C17: a PO or GRN update leaves the keys of the stored headers and the id
\* every header carries as they were, and leaves both sequence counters alone.
C17_UpdateKeepsIds ==
    [][resp'.op \in {"update_po", "update_grn"} =>
        /\ DOMAIN poHeaders' = DOMAIN poHeaders
        /\ DOMAIN grnHeaders' = DOMAIN grnHeaders
        /\ (KeyedByOwnId => KeyedByOwnId')
        /\ \A id \in DOMAIN poHeaders : poHeaders'[id].purchaseOrderID = poHeaders[id].purchaseOrderID
        /\ \A id \in DOMAIN grnHeaders : grnHeaders'[id].grnID = grnHeaders[id].grnID
        /\ UNCHANGED <<poSeq, grnCounter>>]_vars

\* a PO and a GRN are stored under the ids their creations returned while their
\* headers, updated since, name another store than the one they were created for
C17_Witness ==
    /\ resp.op \in {"update_po", "update_grn"} /\ resp.code = 200
    /\ \E id \in DOMAIN poHeaders :
          \A r \in returned.PO : r.id = id => poHeaders[id].storeID # r.store
    /\ \E id \in DOMAIN grnHeaders : grnHeaders[id].storeID # id[2] /\ grnHeaders[id].status = "Posted"

\* ------------------------------------------------------ lines and headers
\* the lines of the PO line table that name header h
TableLinesOf(h) == {poLines[l] : l \in {x \in DOMAIN poLines : poLines[x].purchaseOrderID = h}}

\* C21: in every state the PO lines of the line table that name a header are
\* the lines embedded in that stored header, and every line of the table names
\* a stored header.
C21_HeaderOwnsItsLines ==
    /\ \A h \in DOMAIN poHeaders : TableLinesOf(h) = Range(poHeaders[h].lines)
    /\ \A l \in DOMAIN poLines : poLines[l].purchaseOrderID \in DOMAIN poHeaders

\* ------------------------------------------- every document operation
\* PO bodies for an existing and an unknown store, their lines naming the
\* seeded product or an unknown one
DocPoRequests ==
    [supplierID : {FirstMasterId}, storeID : {"SH01", "WH02"}, status : {"Unset"},
     lines : SeqsUpTo(PoLineInputs, 1, MaxLines),
     taxAmount : {0}, shippingCost : {0}, otherCharges : {0}]

DocGrnRequests == {CoGrnRequest(s) : s \in {"SH01", "WH02"}}

\* the bodies of a PUT on a purchase order: the first line is the seeded
\* product's, a later one may name an unknown product
DocPoUpdates ==
    {r \in DocPoRequests : r.storeID = "SH01" /\ r.lines[1].productID = FirstMasterId}

NextDocs ==
    \/ \E r \in DocPoRequests : CreatePO(r)
    \/ \E id \in PoTargets, r \in DocPoUpdates : UpdatePO(id, r)
    \/ \E r \in DocGrnRequests : CreateGRN(r)
    \/ \E id \in GrnTargets, r \in PostingUpdates : UpdateGRN(id, r)
    \/ \E id \in GrnTargets : DeleteGRN(id)

SpecDocs == InitGRN /\ [][NextDocs]_vars

\* the ids under which a step writes a line: new keys, and keys whose line changed
Written(before, after) ==
    {l \in DOMAIN after : l \notin DOMAIN before \/ after[l] # before[l]}

\* C22: every PO line and every GRN line a step writes gets an id at or above
\* its table's counter, which every id handed out before lies below, and the
\* counter then moves past it; so no line id is ever used twice.
C22_LineIdsNeverReused ==
    [][/\ nextPoLineId' >= nextPoLineId
       /\ nextGrnLineId' >= nextGrnLineId
       /\ \A l \in Written(poLines, poLines') : nextPoLineId <= l /\ l < nextPoLineId'
       /\ \A l \in Written(grnLines, grnLines') : nextGrnLineId <= l /\ l < nextGrnLineId'
       /\ \A l \in DOMAIN poLines' : poLines'[l].purchaseOrderLineID = l
       /\ \A l \in DOMAIN grnLines' : grnLines'[l].grnLineID = l]_vars

\* lines were written after earlier lines of both tables had been removed
C22_Witness ==
    /\ \E l \in DOMAIN poLines : l > FirstLineId /\ FirstLineId \notin DOMAIN poLines
    /\ \E l \in DOMAIN grnLines : l > FirstLineId /\ FirstLineId \notin DOMAIN grnLines

Lifecycle ==
    <<"Draft", "PendingApproval", "Approved", "SentToSupplier",
      "PartiallyReceived", "FullyReceived", "Closed">>

Rank(st) == CHOOSE i \in 1..Len(Lifecycle) : Lifecycle[i] = st

\* a status change the lifecycle allows
MovesForward(old, new) ==
    /\ old \notin {"Closed", "Cancelled"}
    /\ new = "Cancelled" \/ Rank(new) > Rank(old)

\* C23: a PO update that changes the status moves it forward along the
\* lifecycle, or to Cancelled from a status that is not terminal; and no GRN
\* update takes a Posted GRN back to Draft.
C23_StatusMovesForward ==
    [][/\ (resp'.op = "update_po" /\ resp'.code = 200
             /\ poHeaders'[resp'.id].status # poHeaders[resp'.id].status
             => MovesForward(poHeaders[resp'.id].status, poHeaders'[resp'.id].status))
       /\ (resp'.op = "update_grn" /\ resp'.code = 200
             => ~(grnHeaders[resp'.id].status = "Posted" /\ grnHeaders'[resp'.id].status = "Draft"))]_vars

\* ------------------------------------------------- rejected GRN creations
RejectLineInputs ==
    {[productID |-> p, purchaseOrderLineID |-> 0, quantityReceived |-> 1,
      batchNumber |-> b[1], expiryDate |-> b[2]] :
        p \in ProductRefs, b \in {<<"", "">>, <<"B1", "">>, <<"B1", "2025-12-31">>}}

\* GRN bodies of which each field may name something that is not stored
RejectRequests ==
    [storeID : {"SH01", "WH02"}, supplierID : SupplierRefs,
     purchaseOrderID : {NoId, <<"PO", "NONE">>},
     status : {"Draft"}, unset : {{"status"}},
     lines : SeqsUpTo(RejectLineInputs, 1, 1)]

NextReject ==
    \/ CreatePO(CoPoRequest("SH01"))
    \/ \E r \in RejectRequests : CreateGRN(r)
    \/ \E id \in GrnTargets : DeleteGRN(id)

SpecReject == InitFlags /\ [][NextReject]_vars

\* the request names a store, supplier, purchase order or product that is not
\* stored, or one of its lines lacks what its product requires
FailsValidation(grn_in) ==
    \/ grn_in.storeID \notin stores
    \/ grn_in.supplierID \notin suppliers
    \/ grn_in.purchaseOrderID = <<"PO", "NONE">>
    \/ \E i \in 1..Len(grn_in.lines) :
          \/ grn_in.lines[i].productID \notin DOMAIN products
          \/ LacksRequired(grn_in.lines[i])

\* C26: a GRN creation that fails validation answers 400 and leaves the master
\* data, the purchase orders, the GRN headers and lines, the GRN sequence
\* counter and the GRN line-id counter as they were.
C26_RejectedGrnWritesNothing ==
    [][\A r \in RejectRequests : CreateGRN(r) /\ FailsValidation(r) =>
          /\ resp'.code = 400
          /\ UNCHANGED <<masterVars, poVars, grnVars, used>>]_vars

\* a creation was rejected after a purchase order and a GRN had been stored
C26_Witness ==
    /\ resp.op = "create_grn" /\ resp.code = 400
    /\ poHeaders # Empty
    /\ grnHeaders # Empty
    /\ nextGrnLineId > FirstLineId

\* ------------------------------------------------- GRN updates with lines
\* GRN lines of the seeded product under a given batch number
BatchLineInputs(batch) ==
    {[productID |-> FirstMasterId, purchaseOrderLineID |-> l, quantityReceived |-> 1,
      batchNumber |-> batch, expiryDate |-> "2025-12-31"] : l \in {0, FirstLineId}}

\* the bodies of POST /grns: Draft receipts of batch B1
LineCreations ==
    [storeID : {"SH01"}, supplierID : {FirstMasterId}, purchaseOrderID : {NoId},
     status : {"Draft"}, unset : {{"purchaseOrderID"}},
     lines : SeqsUpTo(BatchLineInputs("B1"), 1, MaxLines)]

\* the bodies of PUT /grns/{grn_id}: they post the GRN and carry no line, or
\* lines of batch B2, so never the list a stored GRN has
LineUpdates ==
    [storeID : {"SH01"}, supplierID : {FirstMasterId}, purchaseOrderID : {NoId},
     status : {"Posted"}, unset : {{"purchaseOrderID"}},
     lines : SeqsUpTo(BatchLineInputs("B2"), 0, MaxLines)]

NextLines ==
    \/ \E r \in LineCreations : CreateGRN(r)
    \/ \E id \in GrnTargets, r \in LineUpdates : UpdateGRN(id, r)

SpecLines == InitGRN /\ [][NextLines]_vars

\* C27: after a successful PUT /grns/{id}, whatever line list the body
\* carries, the stored header has the lines it had before, and the GRN line
\* table and the GRN line-id counter are unchanged.
C27_GrnUpdateKeepsLines ==
    [][\A id \in GrnTargets, r \in LineUpdates : UpdateGRN(id, r) /\ resp'.code = 200 =>
          /\ grnHeaders'[id].lines = grnHeaders[id].lines
          /\ UNCHANGED <<grnLines, nextGrnLineId>>]_vars

\* a GRN was posted by an update, whose body carried another line list, and
\* still has every line of batch B1 it was created with
C27_Witness ==
    /\ resp.op = "update_grn" /\ resp.code = 200
    /\ grnHeaders[resp.id].status = "Posted"
    /\ Len(grnHeaders[resp.id].lines) = MaxLines
    /\ \A i \in 1..MaxLines : grnHeaders[resp.id].lines[i].batchNumber = "B1"

\* --------------------------------------------- purchase orders of three stores
\* a third store entered next to the two whose codes differ in case only
InitStores == SeededStores(StoreRefs, FALSE, FALSE)

NextStores ==
    \/ \E s \in StoreRefs : CreatePO(CoPoRequest(s))
    \/ \E id \in PoTargets, s \in StoreRefs : UpdatePO(id, CoPoRequest(s))

SpecStores == InitStores /\ [][NextStores]_vars

\* C30: the store segment of the id of every stored purchase order is the
\* upper-cased storeID of the stored header.
C30_IdStoreMatchesHeader ==
    \A id \in DOMAIN poHeaders : id[2] = Upper(poHeaders[id].storeID)

\* ----------------------------------------------------------- the catalogue
\* SKUs of which two differ in letter case only
SkuInputs == {"ab1", "AB1", "cd2"}

\* what a body may put in categoryID or parentCategoryID: nothing, zero, the
\* default category, the first category created after it
CategoryRefs == {NoRef, 0, FirstMasterId, FirstNewCategoryId}

\* ProductCreate bodies: the categoryID is left out or given, the two flags
\* are left out and take their default
ProductBodies(skus, refs) ==
    {[sku |-> k, categoryID |-> c[1],
      requiresExpiryDate |-> FALSE, requiresBatchNumber |-> FALSE,
      unset |-> c[2] \cup {"requiresExpiryDate", "requiresBatchNumber"}] :
        k \in skus, c \in {<<NoRef, {"categoryID"}>>} \cup {<<x, {}>> : x \in refs}}

\* CategoryCreate bodies: the parentCategoryID is left out or given
CategoryBodies ==
    {[categoryName |-> n, parentCategoryID |-> c[1], unset |-> c[2]] :
        n \in {"Default Category", "Tools"},
        c \in {<<NoRef, {"parentCategoryID"}>>} \cup {<<x, {}>> : x \in CategoryRefs}}

\* the path parameter of a product or category endpoint
MasterIds == 1..MaxMasterId

\* the product endpoints, the default category the only one
NextProducts ==
    \/ \E r \in ProductBodies(SkuInputs, {NoRef, FirstMasterId}) : CreateProduct(r)
    \/ \E id \in MasterIds, r \in ProductBodies(SkuInputs, {NoRef, FirstMasterId}) : UpdateProduct(id, r)
    \/ \E id \in MasterIds : DeleteProduct(id)

SpecProducts == Init /\ [][NextProducts]_vars

\* the category endpoints and the product endpoints
NextCatalog ==
    \/ \E r \in CategoryBodies : CreateCategory(r)
    \/ \E id \in MasterIds, r \in CategoryBodies : UpdateCategory(id, r)
    \/ \E id \in MasterIds : DeleteCategory(id)
    \/ \E r \in ProductBodies({"ab1"}, CategoryRefs) : CreateProduct(r)
    \/ \E id \in MasterIds, r \in ProductBodies({"ab1"}, CategoryRefs) : UpdateProduct(id, r)
    \/ \E id \in MasterIds : DeleteProduct(id)

SpecCatalog == Init /\ [][NextCatalog]_vars

\* two SKUs that are equal once letter case is ignored
SameSku(a, b) ==
    \/ a = b
    \/ {a, b} = {"ab1", "AB1"}

UniqueSkus(prods) ==
    \A p, q \in DOMAIN prods : p # q => ~SameSku(prods[p].sku, prods[q].sku)

\* C25: no two stored products have SKUs that are equal case-insensitively,
\* and a product creation or update whose SKU equals, case-insensitively, the
\* SKU of another stored product is rejected and leaves the products unchanged.
C25_SkusUniqueIgnoringCase ==
    /\ [](UniqueSkus(products))
    /\ [][/\ \A r \in ProductBodies(SkuInputs, {NoRef, FirstMasterId}) :
                CreateProduct(r) /\ (\E p \in DOMAIN products : SameSku(products[p].sku, r.sku))
                  => resp'.code = 400 /\ UNCHANGED <<products, nextProductId>>
          /\ \A id \in MasterIds, r \in ProductBodies(SkuInputs, {NoRef, FirstMasterId}) :
                UpdateProduct(id, r) /\ id \in DOMAIN products
                  /\ (\E p \in DOMAIN products \ {id} : SameSku(products[p].sku, r.sku))
                  => resp'.code = 400 /\ UNCHANGED <<products, nextProductId>>]_vars

\* an update was rejected while the stored products are one with an upper-case
\* SKU and one with another SKU
C25_Witness ==
    /\ resp.op = "update_product" /\ resp.code = 400
    /\ \E p, q \in DOMAIN products : products[p].sku = "AB1" /\ products[q].sku = "cd2"

\* the categories reached from category c by following parentCategoryID links
\* at most n times
RECURSIVE AncestorsWithin(_, _, _)
AncestorsWithin(cats, c, n) ==
    IF n = 0 \/ c \notin DOMAIN cats \/ cats[c].parentCategoryID \notin DOMAIN cats
      THEN {}
      ELSE {cats[c].parentCategoryID}
             \cup AncestorsWithin(cats, cats[c].parentCategoryID, n - 1)

\* C28: following parentCategoryID links from a stored category never returns
\* to that category.
C28_ParentRelationAcyclic ==
    \A c \in DOMAIN categories :
        c \notin AncestorsWithin(categories, c, Cardinality(DOMAIN categories))

\* C29: the categoryID of every stored product and the parentCategoryID of
\* every stored category is null or names a stored category.
C29_CategoryRefsResolve ==
    /\ \A p \in DOMAIN products :
          products[p].categoryID # NoRef => products[p].categoryID \in DOMAIN categories
    /\ \A c \in DOMAIN categories :
          categories[c].parentCategoryID # NoRef
            => categories[c].parentCategoryID \in DOMAIN categories
====
